---- MODULE Spec2Model ----
(***************************************************************************)
(* Model of the test_eq crate: the comparison macros of src/macros.rs     *)
(* (test_eq, test_ne, test_any, test_not_any, test_le, test_ge), the      *)
(* combinator macros (test_and, test_or) and the TestFailure constructors *)
(* of src/lib.rs.  A String is a sequence of one-character strings, so    *)
(* every message is built character by character as format! builds it.    *)
(***************************************************************************)
EXTENDS Integers, Sequences, FiniteSets, TLC

\* Operand values range over 0..MaxVal.
MaxVal == 2
\* Arrays and string operands of test_any / test_not_any have at most MaxItems items.
MaxItems == 2
\* Deepest nesting of test_and / test_or calls explored.
MaxDepth == 2
\* Longest message handed to a merge constructor that is run statement by statement.
MaxLen == 3

VARIABLES
    line_info,  \* the `line-info` cargo feature: fixed at build time
    lhs,        \* the left operand expression of the comparisons
    rhs,        \* the right operand expression of the comparisons
    call,       \* the macro invocation evaluated last: [macro, left, right, args, evals]
    result,     \* the Result it returned
    tree,       \* what result was built from: [depth, and_only, leaves_ok, origin, kept]
    pc,         \* the statement a merge constructor has reached ("idle": none is running)
    frame       \* its parameters and local variables

vars == <<line_info, lhs, rhs, call, result, tree, pc, frame>>

----------------------------------------------------------------------------
\* Option<std::fmt::Arguments>: the annotation handed to a constructor.
None == [some |-> FALSE, text |-> <<>>]

Some(text) == [some |-> TRUE, text |-> text]

\* Result<(), TestFailure>
Ok == [tag |-> "Ok"]

Err(failure) == [tag |-> "Err", failure |-> failure]

is_ok(r) == r.tag = "Ok"

is_err(r) == r.tag = "Err"

\* No arm of a macro matches the invocation (a compile error).
NoRule == [tag |-> "NoRule"]

----------------------------------------------------------------------------
\* Values of the operand expressions: integers, strings and arrays of integers.
Int_(n) == [kind |-> "int", n |-> n]

Str_(s) == [kind |-> "str", s |-> s]

Arr_(items) == [kind |-> "arr", items |-> items]

Digit(d) == CASE d = 0 -> "0" [] d = 1 -> "1" [] d = 2 -> "2" [] d = 3 -> "3" [] d = 4 -> "4"
              [] d = 5 -> "5" [] d = 6 -> "6" [] d = 7 -> "7" [] d = 8 -> "8" [] d = 9 -> "9"

\* {:?} of an unsigned integer: its decimal digits.
RECURSIVE DebugInt(_)
DebugInt(n) == IF n < 10 THEN <<Digit(n)>> ELSE DebugInt(n \div 10) \o <<Digit(n % 10)>>

\* {:?} of the items of an array, separated by ", ".
RECURSIVE DebugItems(_)
DebugItems(items) ==
    IF Len(items) = 0 THEN <<>>
    ELSE IF Len(items) = 1 THEN DebugInt(items[1])
    ELSE DebugInt(items[1]) \o <<",", " ">> \o DebugItems(Tail(items))

\* {val:?}: the Debug rendering of a value.
Debug(val) ==
    CASE val.kind = "int" -> DebugInt(val.n)
      [] val.kind = "str" -> <<"\"">> \o val.s \o <<"\"">>
      [] val.kind = "arr" -> <<"[">> \o DebugItems(val.items) \o <<"]">>

\* left_val == right_val (PartialEq)
eq(left_val, right_val) == left_val = right_val

\* left_val != right_val (PartialEq)
ne(left_val, right_val) == left_val # right_val

\* left_val <= right_val (PartialOrd, on integers)
le(left_val, right_val) == left_val.n <= right_val.n

\* ge with > in place of >=.
ge_strict(left_val, right_val) == left_val.n > right_val.n

\* left_val >= right_val (PartialOrd, on integers)
ge(left_val, right_val) == left_val.n >= right_val.n

\* (right_val).contains(left_val): membership in an array, substring of a string.
contains(right_val, left_val) ==
    IF right_val.kind = "arr"
    THEN \E i \in 1..Len(right_val.items) : right_val.items[i] = left_val.n
    ELSE \E i \in 0..(Len(right_val.s) - Len(left_val.s)) :
            SubSeq(right_val.s, i + 1, i + Len(left_val.s)) = left_val.s

----------------------------------------------------------------------------
\* TestFailure { error }: the constructors of src/lib.rs.

\* test_failed_inner_two_idents with a newline after the last line, as
\* writeln! would leave it.
TestFailure_test_failed_inner_two_idents_newline_end(message, first_ident, first_val, second_ident, second_val, args) ==
    LET error ==
            IF args.some
            THEN message \o <<":", " ">> \o args.text \o <<"\n">> \o first_ident \o <<":", " ">> \o Debug(first_val)
                 \o <<"\n">> \o second_ident \o <<":", " ">> \o Debug(second_val) \o <<"\n">>
            ELSE message \o <<"\n">> \o first_ident \o <<":", " ">> \o Debug(first_val)
                 \o <<"\n">> \o second_ident \o <<":", " ">> \o Debug(second_val) \o <<"\n">>
    IN [error |-> error]

TestFailure_test_failed_inner_two_idents(message, first_ident, first_val, second_ident, second_val, args) ==
    LET error ==
            IF args.some
            THEN message \o <<":", " ">> \o args.text \o <<"\n">> \o first_ident \o <<":", " ">> \o Debug(first_val)
                 \o <<"\n">> \o second_ident \o <<":", " ">> \o Debug(second_val)
            ELSE message \o <<"\n">> \o first_ident \o <<":", " ">> \o Debug(first_val)
                 \o <<"\n">> \o second_ident \o <<":", " ">> \o Debug(second_val)
    IN [error |-> error]

TestFailure_test_failed_two_idents(message, first_ident, first_val, second_ident, second_val, args) ==
    TestFailure_test_failed_inner_two_idents(message, first_ident, first_val, second_ident, second_val, args)

TestFailure_test_failed_inner_one_ident(message, ident, val, args) ==
    LET error ==
            IF args.some
            THEN message \o <<":", " ">> \o args.text \o <<"\n">> \o ident \o <<":", " ">> \o Debug(val)
            ELSE message \o <<"\n">> \o ident \o <<":", " ">> \o Debug(val)
    IN [error |-> error]

TestFailure_test_failed_one_ident(message, ident, val, args) ==
    TestFailure_test_failed_inner_one_ident(message, ident, val, args)

TestFailure_test_failed_no_ident(message, args) ==
    LET error ==
            IF args.some
            THEN message \o <<":", " ">> \o args.text
            ELSE message
    IN [error |-> error]

----------------------------------------------------------------------------
\* An operand of a macro invocation: its token text, whether the tokens are a
\* literal (so that a $x:literal fragment matches), and the value it evaluates to.

\* ::std::stringify!($x)
stringify(operand_) == operand_.text

\* ::std::format_args!($($arg)+): the formatted annotation.
format_args(args) == args.fmt

\* Does ($left:lfrag, $right:rfrag [, $($arg:tt)+]) match the invocation?  An expr
\* fragment matches a literal too.
matches(left, lfrag, right, rfrag, args, with_args) ==
    /\ (lfrag = "literal") => left.lit
    /\ (rfrag = "literal") => right.lit
    /\ args.present = with_args

\* The call site without the ": " that separates it from "Test failed: ".
location_unseparated == IF line_info THEN <<"[", "s", "r", "c", "/", "m", "a", "i", "n", ".", "r", "s", ":", "5", ":", "1", "]">> ELSE <<>>

\* '[', file!(), ':', line!(), ':', column!(), "]: " of the call site, when line-info is on.
location == IF line_info THEN <<"[", "s", "r", "c", "/", "m", "a", "i", "n", ".", "r", "s", ":", "5", ":", "1", "]", ":", " ">> ELSE <<>>

test_eq_message(left, right) ==
    location \o <<"T", "e", "s", "t", " ", "f", "a", "i", "l", "e", "d", ":", " ">> \o stringify(left) \o <<" ", "!", "=", " ">> \o stringify(right)

test_ne_message(left, right) ==
    location \o <<"T", "e", "s", "t", " ", "f", "a", "i", "l", "e", "d", ":", " ">> \o stringify(left) \o <<" ", "=", "=", " ">> \o stringify(right)

test_any_message(left, right) ==
    location \o <<"T", "e", "s", "t", " ", "f", "a", "i", "l", "e", "d", ":", " ", "!">> \o stringify(right) \o <<".", "c", "o", "n", "t", "a", "i", "n", "s", "(">> \o stringify(left) \o <<")">>

test_not_any_message(left, right) ==
    location \o <<"T", "e", "s", "t", " ", "f", "a", "i", "l", "e", "d", ":", " ">> \o stringify(right) \o <<".", "c", "o", "n", "t", "a", "i", "n", "s", "(">> \o stringify(left) \o <<")">>

test_le_message(left, right) ==
    location \o <<"T", "e", "s", "t", " ", "f", "a", "i", "l", "e", "d", ":", " ">> \o stringify(left) \o <<" ", ">", " ">> \o stringify(right)

\* The header of test_ge with the symbol of the relation itself (>=) instead of
\* the negated one.
test_ge_message_not_negated(left, right) ==
    location \o <<"T", "e", "s", "t", " ", "f", "a", "i", "l", "e", "d", ":", " ">> \o stringify(left) \o <<" ", ">", "=", " ">> \o stringify(right)

test_ge_message(left, right) ==
    location \o <<"T", "e", "s", "t", " ", "f", "a", "i", "l", "e", "d", ":", " ">> \o stringify(left) \o <<" ", "<", " ">> \o stringify(right)

\* test_eq with its second arm ($left:literal, $right:expr) declared before the
\* first ($left:expr, $right:literal).
test_eq_arm2_first(left, right, args) ==
    LET left_val == left.val
        right_val == right.val
        message == test_eq_message(left, right)
    IN
    IF matches(left, "literal", right, "expr", args, FALSE) THEN  \* arm 2
        IF ~eq(left_val, right_val)
        THEN Err(TestFailure_test_failed_one_ident(message, stringify(right), right_val, None))
        ELSE Ok
    ELSE IF matches(left, "expr", right, "literal", args, FALSE) THEN  \* arm 1
        IF ~eq(left_val, right_val)
        THEN Err(TestFailure_test_failed_one_ident(message, stringify(left), left_val, None))
        ELSE Ok
    ELSE IF matches(left, "expr", right, "expr", args, FALSE) THEN  \* arm 3
        IF ~eq(left_val, right_val)
        THEN Err(TestFailure_test_failed_two_idents(message, stringify(left), left_val, stringify(right), right_val, None))
        ELSE Ok
    ELSE IF matches(left, "literal", right, "expr", args, TRUE) THEN  \* arm 4
        IF ~eq(left_val, right_val)
        THEN Err(TestFailure_test_failed_one_ident(message, stringify(right), right_val, Some(format_args(args))))
        ELSE Ok
    ELSE IF matches(left, "expr", right, "literal", args, TRUE) THEN  \* arm 5
        IF ~eq(left_val, right_val)
        THEN Err(TestFailure_test_failed_one_ident(message, stringify(left), left_val, Some(format_args(args))))
        ELSE Ok
    ELSE IF matches(left, "expr", right, "expr", args, TRUE) THEN  \* arm 6
        IF ~eq(left_val, right_val)
        THEN Err(TestFailure_test_failed_two_idents(message, stringify(left), left_val, stringify(right), right_val, Some(format_args(args))))
        ELSE Ok
    ELSE NoRule

\* test_eq with the condition of arm 5 inverted.
test_eq_arm5_inverted(left, right, args) ==
    LET left_val == left.val
        right_val == right.val
        message == test_eq_message(left, right)
    IN
    IF matches(left, "expr", right, "literal", args, FALSE) THEN  \* arm 1
        IF ~eq(left_val, right_val)
        THEN Err(TestFailure_test_failed_one_ident(message, stringify(left), left_val, None))
        ELSE Ok
    ELSE IF matches(left, "literal", right, "expr", args, FALSE) THEN  \* arm 2
        IF ~eq(left_val, right_val)
        THEN Err(TestFailure_test_failed_one_ident(message, stringify(right), right_val, None))
        ELSE Ok
    ELSE IF matches(left, "expr", right, "expr", args, FALSE) THEN  \* arm 3
        IF ~eq(left_val, right_val)
        THEN Err(TestFailure_test_failed_two_idents(message, stringify(left), left_val, stringify(right), right_val, None))
        ELSE Ok
    ELSE IF matches(left, "literal", right, "expr", args, TRUE) THEN  \* arm 4
        IF ~eq(left_val, right_val)
        THEN Err(TestFailure_test_failed_one_ident(message, stringify(right), right_val, Some(format_args(args))))
        ELSE Ok
    ELSE IF matches(left, "expr", right, "literal", args, TRUE) THEN  \* arm 5
        IF eq(left_val, right_val)
        THEN Err(TestFailure_test_failed_one_ident(message, stringify(left), left_val, Some(format_args(args))))
        ELSE Ok
    ELSE IF matches(left, "expr", right, "expr", args, TRUE) THEN  \* arm 6
        IF ~eq(left_val, right_val)
        THEN Err(TestFailure_test_failed_two_idents(message, stringify(left), left_val, stringify(right), right_val, Some(format_args(args))))
        ELSE Ok
    ELSE NoRule

\* macro_rules! test_eq: the arms in declaration order, the first matching arm is expanded.
test_eq(left, right, args) ==
    LET left_val == left.val
        right_val == right.val
        message == test_eq_message(left, right)
    IN
    IF matches(left, "expr", right, "literal", args, FALSE) THEN  \* arm 1
        IF ~eq(left_val, right_val)
        THEN Err(TestFailure_test_failed_one_ident(message, stringify(left), left_val, None))
        ELSE Ok
    ELSE IF matches(left, "literal", right, "expr", args, FALSE) THEN  \* arm 2
        IF ~eq(left_val, right_val)
        THEN Err(TestFailure_test_failed_one_ident(message, stringify(right), right_val, None))
        ELSE Ok
    ELSE IF matches(left, "expr", right, "expr", args, FALSE) THEN  \* arm 3
        IF ~eq(left_val, right_val)
        THEN Err(TestFailure_test_failed_two_idents(message, stringify(left), left_val, stringify(right), right_val, None))
        ELSE Ok
    ELSE IF matches(left, "literal", right, "expr", args, TRUE) THEN  \* arm 4
        IF ~eq(left_val, right_val)
        THEN Err(TestFailure_test_failed_one_ident(message, stringify(right), right_val, Some(format_args(args))))
        ELSE Ok
    ELSE IF matches(left, "expr", right, "literal", args, TRUE) THEN  \* arm 5
        IF ~eq(left_val, right_val)
        THEN Err(TestFailure_test_failed_one_ident(message, stringify(left), left_val, Some(format_args(args))))
        ELSE Ok
    ELSE IF matches(left, "expr", right, "expr", args, TRUE) THEN  \* arm 6
        IF ~eq(left_val, right_val)
        THEN Err(TestFailure_test_failed_two_idents(message, stringify(left), left_val, stringify(right), right_val, Some(format_args(args))))
        ELSE Ok
    ELSE NoRule

\* test_ne with the condition of arm 2 inverted.
test_ne_arm2_inverted(left, right, args) ==
    LET left_val == left.val
        right_val == right.val
        message == test_ne_message(left, right)
    IN
    IF matches(left, "expr", right, "literal", args, FALSE) THEN  \* arm 1
        IF ~ne(left_val, right_val)
        THEN Err(TestFailure_test_failed_one_ident(message, stringify(left), left_val, None))
        ELSE Ok
    ELSE IF matches(left, "literal", right, "expr", args, FALSE) THEN  \* arm 2
        IF ne(left_val, right_val)
        THEN Err(TestFailure_test_failed_one_ident(message, stringify(right), right_val, None))
        ELSE Ok
    ELSE IF matches(left, "expr", right, "expr", args, FALSE) THEN  \* arm 3
        IF ~ne(left_val, right_val)
        THEN Err(TestFailure_test_failed_two_idents(message, stringify(left), left_val, stringify(right), right_val, None))
        ELSE Ok
    ELSE IF matches(left, "literal", right, "expr", args, TRUE) THEN  \* arm 4
        IF ~ne(left_val, right_val)
        THEN Err(TestFailure_test_failed_one_ident(message, stringify(right), right_val, Some(format_args(args))))
        ELSE Ok
    ELSE IF matches(left, "expr", right, "literal", args, TRUE) THEN  \* arm 5
        IF ~ne(left_val, right_val)
        THEN Err(TestFailure_test_failed_one_ident(message, stringify(left), left_val, Some(format_args(args))))
        ELSE Ok
    ELSE IF matches(left, "expr", right, "expr", args, TRUE) THEN  \* arm 6
        IF ~ne(left_val, right_val)
        THEN Err(TestFailure_test_failed_two_idents(message, stringify(left), left_val, stringify(right), right_val, Some(format_args(args))))
        ELSE Ok
    ELSE NoRule

\* macro_rules! test_ne: the arms in declaration order, the first matching arm is expanded.
test_ne(left, right, args) ==
    LET left_val == left.val
        right_val == right.val
        message == test_ne_message(left, right)
    IN
    IF matches(left, "expr", right, "literal", args, FALSE) THEN  \* arm 1
        IF ~ne(left_val, right_val)
        THEN Err(TestFailure_test_failed_one_ident(message, stringify(left), left_val, None))
        ELSE Ok
    ELSE IF matches(left, "literal", right, "expr", args, FALSE) THEN  \* arm 2
        IF ~ne(left_val, right_val)
        THEN Err(TestFailure_test_failed_one_ident(message, stringify(right), right_val, None))
        ELSE Ok
    ELSE IF matches(left, "expr", right, "expr", args, FALSE) THEN  \* arm 3
        IF ~ne(left_val, right_val)
        THEN Err(TestFailure_test_failed_two_idents(message, stringify(left), left_val, stringify(right), right_val, None))
        ELSE Ok
    ELSE IF matches(left, "literal", right, "expr", args, TRUE) THEN  \* arm 4
        IF ~ne(left_val, right_val)
        THEN Err(TestFailure_test_failed_one_ident(message, stringify(right), right_val, Some(format_args(args))))
        ELSE Ok
    ELSE IF matches(left, "expr", right, "literal", args, TRUE) THEN  \* arm 5
        IF ~ne(left_val, right_val)
        THEN Err(TestFailure_test_failed_one_ident(message, stringify(left), left_val, Some(format_args(args))))
        ELSE Ok
    ELSE IF matches(left, "expr", right, "expr", args, TRUE) THEN  \* arm 6
        IF ~ne(left_val, right_val)
        THEN Err(TestFailure_test_failed_two_idents(message, stringify(left), left_val, stringify(right), right_val, Some(format_args(args))))
        ELSE Ok
    ELSE NoRule

\* test_any with the condition of arm 6 inverted.
test_any_arm6_inverted(left, right, args) ==
    LET left_val == left.val
        right_val == right.val
        message == test_any_message(left, right)
    IN
    IF matches(left, "expr", right, "literal", args, FALSE) THEN  \* arm 1
        IF ~contains(right_val, left_val)
        THEN Err(TestFailure_test_failed_one_ident(message, stringify(left), left_val, None))
        ELSE Ok
    ELSE IF matches(left, "literal", right, "expr", args, FALSE) THEN  \* arm 2
        IF ~contains(right_val, left_val)
        THEN Err(TestFailure_test_failed_one_ident(message, stringify(right), right_val, None))
        ELSE Ok
    ELSE IF matches(left, "expr", right, "expr", args, FALSE) THEN  \* arm 3
        IF ~contains(right_val, left_val)
        THEN Err(TestFailure_test_failed_two_idents(message, stringify(left), left_val, stringify(right), right_val, None))
        ELSE Ok
    ELSE IF matches(left, "expr", right, "literal", args, TRUE) THEN  \* arm 4
        IF ~contains(right_val, left_val)
        THEN Err(TestFailure_test_failed_one_ident(message, stringify(left), left_val, Some(format_args(args))))
        ELSE Ok
    ELSE IF matches(left, "literal", right, "expr", args, TRUE) THEN  \* arm 5
        IF ~contains(right_val, left_val)
        THEN Err(TestFailure_test_failed_one_ident(message, stringify(right), right_val, Some(format_args(args))))
        ELSE Ok
    ELSE IF matches(left, "expr", right, "expr", args, TRUE) THEN  \* arm 6
        IF contains(right_val, left_val)
        THEN Err(TestFailure_test_failed_two_idents(message, stringify(left), left_val, stringify(right), right_val, Some(format_args(args))))
        ELSE Ok
    ELSE NoRule

\* macro_rules! test_any: the arms in declaration order, the first matching arm is expanded.
test_any(left, right, args) ==
    LET left_val == left.val
        right_val == right.val
        message == test_any_message(left, right)
    IN
    IF matches(left, "expr", right, "literal", args, FALSE) THEN  \* arm 1
        IF ~contains(right_val, left_val)
        THEN Err(TestFailure_test_failed_one_ident(message, stringify(left), left_val, None))
        ELSE Ok
    ELSE IF matches(left, "literal", right, "expr", args, FALSE) THEN  \* arm 2
        IF ~contains(right_val, left_val)
        THEN Err(TestFailure_test_failed_one_ident(message, stringify(right), right_val, None))
        ELSE Ok
    ELSE IF matches(left, "expr", right, "expr", args, FALSE) THEN  \* arm 3
        IF ~contains(right_val, left_val)
        THEN Err(TestFailure_test_failed_two_idents(message, stringify(left), left_val, stringify(right), right_val, None))
        ELSE Ok
    ELSE IF matches(left, "expr", right, "literal", args, TRUE) THEN  \* arm 4
        IF ~contains(right_val, left_val)
        THEN Err(TestFailure_test_failed_one_ident(message, stringify(left), left_val, Some(format_args(args))))
        ELSE Ok
    ELSE IF matches(left, "literal", right, "expr", args, TRUE) THEN  \* arm 5
        IF ~contains(right_val, left_val)
        THEN Err(TestFailure_test_failed_one_ident(message, stringify(right), right_val, Some(format_args(args))))
        ELSE Ok
    ELSE IF matches(left, "expr", right, "expr", args, TRUE) THEN  \* arm 6
        IF ~contains(right_val, left_val)
        THEN Err(TestFailure_test_failed_two_idents(message, stringify(left), left_val, stringify(right), right_val, Some(format_args(args))))
        ELSE Ok
    ELSE NoRule

\* test_not_any with the condition of arm 4 ($left:expr, $right:literal, args)
\* inverted as well.
test_not_any_arm4_inverted(left, right, args) ==
    LET left_val == left.val
        right_val == right.val
        message == test_not_any_message(left, right)
    IN
    IF matches(left, "expr", right, "literal", args, FALSE) THEN  \* arm 1
        IF contains(right_val, left_val)
        THEN Err(TestFailure_test_failed_one_ident(message, stringify(left), left_val, None))
        ELSE Ok
    ELSE IF matches(left, "literal", right, "expr", args, FALSE) THEN  \* arm 2
        IF contains(right_val, left_val)
        THEN Err(TestFailure_test_failed_one_ident(message, stringify(right), right_val, None))
        ELSE Ok
    ELSE IF matches(left, "expr", right, "expr", args, FALSE) THEN  \* arm 3
        IF contains(right_val, left_val)
        THEN Err(TestFailure_test_failed_two_idents(message, stringify(left), left_val, stringify(right), right_val, None))
        ELSE Ok
    ELSE IF matches(left, "expr", right, "literal", args, TRUE) THEN  \* arm 4
        IF ~contains(right_val, left_val)
        THEN Err(TestFailure_test_failed_one_ident(message, stringify(left), left_val, Some(format_args(args))))
        ELSE Ok
    ELSE IF matches(left, "literal", right, "expr", args, TRUE) THEN  \* arm 5
        IF ~contains(right_val, left_val)
        THEN Err(TestFailure_test_failed_one_ident(message, stringify(right), right_val, Some(format_args(args))))
        ELSE Ok
    ELSE IF matches(left, "expr", right, "expr", args, TRUE) THEN  \* arm 6
        IF ~contains(right_val, left_val)
        THEN Err(TestFailure_test_failed_two_idents(message, stringify(left), left_val, stringify(right), right_val, Some(format_args(args))))
        ELSE Ok
    ELSE NoRule

\* macro_rules! test_not_any: the arms in declaration order, the first matching arm is expanded.
test_not_any(left, right, args) ==
    LET left_val == left.val
        right_val == right.val
        message == test_not_any_message(left, right)
    IN
    IF matches(left, "expr", right, "literal", args, FALSE) THEN  \* arm 1
        IF contains(right_val, left_val)
        THEN Err(TestFailure_test_failed_one_ident(message, stringify(left), left_val, None))
        ELSE Ok
    ELSE IF matches(left, "literal", right, "expr", args, FALSE) THEN  \* arm 2
        IF contains(right_val, left_val)
        THEN Err(TestFailure_test_failed_one_ident(message, stringify(right), right_val, None))
        ELSE Ok
    ELSE IF matches(left, "expr", right, "expr", args, FALSE) THEN  \* arm 3
        IF contains(right_val, left_val)
        THEN Err(TestFailure_test_failed_two_idents(message, stringify(left), left_val, stringify(right), right_val, None))
        ELSE Ok
    ELSE IF matches(left, "expr", right, "literal", args, TRUE) THEN  \* arm 4
        IF contains(right_val, left_val)
        THEN Err(TestFailure_test_failed_one_ident(message, stringify(left), left_val, Some(format_args(args))))
        ELSE Ok
    ELSE IF matches(left, "literal", right, "expr", args, TRUE) THEN  \* arm 5
        IF ~contains(right_val, left_val)
        THEN Err(TestFailure_test_failed_one_ident(message, stringify(right), right_val, Some(format_args(args))))
        ELSE Ok
    ELSE IF matches(left, "expr", right, "expr", args, TRUE) THEN  \* arm 6
        IF ~contains(right_val, left_val)
        THEN Err(TestFailure_test_failed_two_idents(message, stringify(left), left_val, stringify(right), right_val, Some(format_args(args))))
        ELSE Ok
    ELSE NoRule

\* test_le with arm 2 ($left:literal, $right:expr) displaying the literal left
\* operand instead of the right one.
test_le_arm2_shows_left(left, right, args) ==
    LET left_val == left.val
        right_val == right.val
        message == test_le_message(left, right)
    IN
    IF matches(left, "expr", right, "literal", args, FALSE) THEN  \* arm 1
        IF ~le(left_val, right_val)
        THEN Err(TestFailure_test_failed_one_ident(message, stringify(left), left_val, None))
        ELSE Ok
    ELSE IF matches(left, "literal", right, "expr", args, FALSE) THEN  \* arm 2
        IF ~le(left_val, right_val)
        THEN Err(TestFailure_test_failed_one_ident(message, stringify(left), left_val, None))
        ELSE Ok
    ELSE IF matches(left, "expr", right, "expr", args, FALSE) THEN  \* arm 3
        IF ~le(left_val, right_val)
        THEN Err(TestFailure_test_failed_two_idents(message, stringify(left), left_val, stringify(right), right_val, None))
        ELSE Ok
    ELSE IF matches(left, "literal", right, "expr", args, TRUE) THEN  \* arm 4
        IF ~le(left_val, right_val)
        THEN Err(TestFailure_test_failed_one_ident(message, stringify(right), right_val, Some(format_args(args))))
        ELSE Ok
    ELSE IF matches(left, "expr", right, "literal", args, TRUE) THEN  \* arm 5
        IF ~le(left_val, right_val)
        THEN Err(TestFailure_test_failed_one_ident(message, stringify(left), left_val, Some(format_args(args))))
        ELSE Ok
    ELSE IF matches(left, "expr", right, "expr", args, TRUE) THEN  \* arm 6
        IF ~le(left_val, right_val)
        THEN Err(TestFailure_test_failed_two_idents(message, stringify(left), left_val, stringify(right), right_val, Some(format_args(args))))
        ELSE Ok
    ELSE NoRule

\* macro_rules! test_le: the arms in declaration order, the first matching arm is expanded.
test_le(left, right, args) ==
    LET left_val == left.val
        right_val == right.val
        message == test_le_message(left, right)
    IN
    IF matches(left, "expr", right, "literal", args, FALSE) THEN  \* arm 1
        IF ~le(left_val, right_val)
        THEN Err(TestFailure_test_failed_one_ident(message, stringify(left), left_val, None))
        ELSE Ok
    ELSE IF matches(left, "literal", right, "expr", args, FALSE) THEN  \* arm 2
        IF ~le(left_val, right_val)
        THEN Err(TestFailure_test_failed_one_ident(message, stringify(right), right_val, None))
        ELSE Ok
    ELSE IF matches(left, "expr", right, "expr", args, FALSE) THEN  \* arm 3
        IF ~le(left_val, right_val)
        THEN Err(TestFailure_test_failed_two_idents(message, stringify(left), left_val, stringify(right), right_val, None))
        ELSE Ok
    ELSE IF matches(left, "literal", right, "expr", args, TRUE) THEN  \* arm 4
        IF ~le(left_val, right_val)
        THEN Err(TestFailure_test_failed_one_ident(message, stringify(right), right_val, Some(format_args(args))))
        ELSE Ok
    ELSE IF matches(left, "expr", right, "literal", args, TRUE) THEN  \* arm 5
        IF ~le(left_val, right_val)
        THEN Err(TestFailure_test_failed_one_ident(message, stringify(left), left_val, Some(format_args(args))))
        ELSE Ok
    ELSE IF matches(left, "expr", right, "expr", args, TRUE) THEN  \* arm 6
        IF ~le(left_val, right_val)
        THEN Err(TestFailure_test_failed_two_idents(message, stringify(left), left_val, stringify(right), right_val, Some(format_args(args))))
        ELSE Ok
    ELSE NoRule

\* macro_rules! test_ge: the arms in declaration order, the first matching arm is expanded.
test_ge(left, right, args) ==
    LET left_val == left.val
        right_val == right.val
        message == test_ge_message(left, right)
    IN
    IF matches(left, "expr", right, "literal", args, FALSE) THEN  \* arm 1
        IF ~ge(left_val, right_val)
        THEN Err(TestFailure_test_failed_one_ident(message, stringify(left), left_val, None))
        ELSE Ok
    ELSE IF matches(left, "literal", right, "expr", args, FALSE) THEN  \* arm 2
        IF ~ge(left_val, right_val)
        THEN Err(TestFailure_test_failed_one_ident(message, stringify(right), right_val, None))
        ELSE Ok
    ELSE IF matches(left, "expr", right, "expr", args, FALSE) THEN  \* arm 3
        IF ~ge(left_val, right_val)
        THEN Err(TestFailure_test_failed_two_idents(message, stringify(left), left_val, stringify(right), right_val, None))
        ELSE Ok
    ELSE IF matches(left, "literal", right, "expr", args, TRUE) THEN  \* arm 4
        IF ~ge(left_val, right_val)
        THEN Err(TestFailure_test_failed_one_ident(message, stringify(right), right_val, Some(format_args(args))))
        ELSE Ok
    ELSE IF matches(left, "expr", right, "literal", args, TRUE) THEN  \* arm 5
        IF ~ge(left_val, right_val)
        THEN Err(TestFailure_test_failed_one_ident(message, stringify(left), left_val, Some(format_args(args))))
        ELSE Ok
    ELSE IF matches(left, "expr", right, "expr", args, TRUE) THEN  \* arm 6
        IF ~ge(left_val, right_val)
        THEN Err(TestFailure_test_failed_two_idents(message, stringify(left), left_val, stringify(right), right_val, Some(format_args(args))))
        ELSE Ok
    ELSE NoRule

----------------------------------------------------------------------------
\* The re-indentation loop of two_tests_failed and one_test_failed.

\* A panic while slicing (in place of the String), and unwinding out of a
\* constructor (in place of the TestFailure).
SlicePanic == <<"panic!">>

Panicked == [panic |-> TRUE]

\* s[start_of_search..].rfind('\n'): the offset of the last newline instead of
\* the first.
rfind(s, start_of_search) ==
    IF \E i \in (start_of_search + 1)..Len(s) : s[i] = "\n"
    THEN (CHOOSE i \in (start_of_search + 1)..Len(s) :
            /\ s[i] = "\n"
            /\ \A j \in (i + 1)..Len(s) : s[j] # "\n") - (start_of_search + 1)
    ELSE -1

\* s.find('\n'): the search over the whole string, whatever start_of_search is.
find_in_whole(s, start_of_search) ==
    IF \E i \in 1..Len(s) : s[i] = "\n"
    THEN (CHOOSE i \in 1..Len(s) :
            /\ s[i] = "\n"
            /\ \A j \in 1..(i - 1) : s[j] # "\n") - 1
    ELSE -1

\* s[start_of_search..].find('\n'): the offset of the first newline at or after
\* start_of_search, -1 for Option::None.
find(s, start_of_search) ==
    IF \E i \in (start_of_search + 1)..Len(s) : s[i] = "\n"
    THEN (CHOOSE i \in (start_of_search + 1)..Len(s) :
            /\ s[i] = "\n"
            /\ \A j \in (start_of_search + 1)..(i - 1) : s[j] # "\n") - (start_of_search + 1)
    ELSE -1

\* String::insert_str(idx, string), idx a byte offset.
insert_str(s, idx, string) == SubSeq(s, 1, idx) \o string \o SubSeq(s, idx + 1, Len(s))

\* while let Some(position) = s[start_of_search..].find('\n') { ... }
\* Slicing past the end of the string panics.
RECURSIVE reindent_loop(_, _)
reindent_loop(s, start_of_search) ==
    IF start_of_search > Len(s) THEN SlicePanic
    ELSE LET position == find(s, start_of_search) IN
         IF position = -1 THEN s
         ELSE reindent_loop(insert_str(s, start_of_search + position + 1, <<" ", " ", " ">>),
                            start_of_search + position + 3)

\* let mut start_of_search = 0; followed by the loop.
reindent(s) == reindent_loop(s, 0)

\* two_tests_failed with the second loop searching and indenting `first` again, so
\* that `second` is left as it came.
TestFailure_two_tests_failed_second_unindented(first_, second_, args) ==
    LET first == reindent(reindent(first_.error))
        second == second_.error
    IN  IF first = SlicePanic THEN Panicked
        ELSE LET error ==
                    IF args.some
                    THEN <<"B", "o", "t", "h", " ", "t", "e", "s", "t", "s", " ", "f", "a", "i", "l", "e", "d", ":", " ">> \o args.text \o <<"\n", "1", ":", " ">> \o first \o <<"\n", "2", ":", " ">> \o second
                    ELSE <<"B", "o", "t", "h", " ", "t", "e", "s", "t", "s", " ", "f", "a", "i", "l", "e", "d", ":", "\n", "1", ":", " ">> \o first \o <<"\n", "2", ":", " ">> \o second
             IN [error |-> error]

\* two_tests_failed with the colon left out of the header when there is no annotation.
TestFailure_two_tests_failed_no_colon(first_, second_, args) ==
    LET first == reindent(first_.error)
        second == reindent(second_.error)
    IN  IF first = SlicePanic \/ second = SlicePanic THEN Panicked
        ELSE LET error ==
                    IF args.some
                    THEN <<"B", "o", "t", "h", " ", "t", "e", "s", "t", "s", " ", "f", "a", "i", "l", "e", "d", ":", " ">> \o args.text \o <<"\n", "1", ":", " ">> \o first \o <<"\n", "2", ":", " ">> \o second
                    ELSE <<"B", "o", "t", "h", " ", "t", "e", "s", "t", "s", " ", "f", "a", "i", "l", "e", "d", "\n", "1", ":", " ">> \o first \o <<"\n", "2", ":", " ">> \o second
             IN [error |-> error]

\* two_tests_failed with the two failures rendered in the other order: the
\* second under "1:", the first under "2:".
TestFailure_two_tests_failed_swapped(first_, second_, args) ==
    LET first == reindent(first_.error)
        second == reindent(second_.error)
    IN  IF first = SlicePanic \/ second = SlicePanic THEN Panicked
        ELSE LET error ==
                    IF args.some
                    THEN <<"B", "o", "t", "h", " ", "t", "e", "s", "t", "s", " ", "f", "a", "i", "l", "e", "d", ":", " ">> \o args.text \o <<"\n", "1", ":", " ">> \o second \o <<"\n", "2", ":", " ">> \o first
                    ELSE <<"B", "o", "t", "h", " ", "t", "e", "s", "t", "s", " ", "f", "a", "i", "l", "e", "d", ":", "\n", "1", ":", " ">> \o second \o <<"\n", "2", ":", " ">> \o first
             IN [error |-> error]

\* two_tests_failed without its first loop: `first` is rendered as it came.
TestFailure_two_tests_failed_first_unindented(first_, second_, args) ==
    LET first == first_.error
        second == reindent(second_.error)
    IN  IF second = SlicePanic THEN Panicked
        ELSE LET error ==
                    IF args.some
                    THEN <<"B", "o", "t", "h", " ", "t", "e", "s", "t", "s", " ", "f", "a", "i", "l", "e", "d", ":", " ">> \o args.text \o <<"\n", "1", ":", " ">> \o first \o <<"\n", "2", ":", " ">> \o second
                    ELSE <<"B", "o", "t", "h", " ", "t", "e", "s", "t", "s", " ", "f", "a", "i", "l", "e", "d", ":", "\n", "1", ":", " ">> \o first \o <<"\n", "2", ":", " ">> \o second
             IN [error |-> error]

TestFailure_two_tests_failed(first_, second_, args) ==
    LET first == reindent(first_.error)
        second == reindent(second_.error)
    IN  IF first = SlicePanic \/ second = SlicePanic THEN Panicked
        ELSE LET error ==
                    IF args.some
                    THEN <<"B", "o", "t", "h", " ", "t", "e", "s", "t", "s", " ", "f", "a", "i", "l", "e", "d", ":", " ">> \o args.text \o <<"\n", "1", ":", " ">> \o first \o <<"\n", "2", ":", " ">> \o second
                    ELSE <<"B", "o", "t", "h", " ", "t", "e", "s", "t", "s", " ", "f", "a", "i", "l", "e", "d", ":", "\n", "1", ":", " ">> \o first \o <<"\n", "2", ":", " ">> \o second
             IN [error |-> error]

\* one_test_failed with the same layout with and without an annotation.
TestFailure_one_test_failed_own_line(failure_, args) ==
    LET failure == reindent(failure_.error)
    IN  IF failure = SlicePanic THEN Panicked
        ELSE LET error ==
                    IF args.some
                    THEN <<"O", "n", "e", " ", "o", "f", " ", "t", "h", "e", " ", "t", "e", "s", "t", "s", " ", "f", "a", "i", "l", "e", "d", ":", " ">> \o args.text \o <<"\n", " ", " ", " ">> \o failure
                    ELSE <<"O", "n", "e", " ", "o", "f", " ", "t", "h", "e", " ", "t", "e", "s", "t", "s", " ", "f", "a", "i", "l", "e", "d", "\n", " ", " ", " ">> \o failure
             IN [error |-> error]

\* one_test_failed without its re-indentation loop.
TestFailure_one_test_failed_unindented(failure_, args) ==
    LET failure == failure_.error
    IN  LET error ==
                IF args.some
                THEN <<"O", "n", "e", " ", "o", "f", " ", "t", "h", "e", " ", "t", "e", "s", "t", "s", " ", "f", "a", "i", "l", "e", "d", ":", " ">> \o args.text \o <<"\n", " ", " ", " ">> \o failure
                ELSE <<"O", "n", "e", " ", "o", "f", " ", "t", "h", "e", " ", "t", "e", "s", "t", "s", " ", "f", "a", "i", "l", "e", "d", ":", " ">> \o failure
        IN [error |-> error]

TestFailure_one_test_failed(failure_, args) ==
    LET failure == reindent(failure_.error)
    IN  IF failure = SlicePanic THEN Panicked
        ELSE LET error ==
                    IF args.some
                    THEN <<"O", "n", "e", " ", "o", "f", " ", "t", "h", "e", " ", "t", "e", "s", "t", "s", " ", "f", "a", "i", "l", "e", "d", ":", " ">> \o args.text \o <<"\n", " ", " ", " ">> \o failure
                    ELSE <<"O", "n", "e", " ", "o", "f", " ", "t", "h", "e", " ", "t", "e", "s", "t", "s", " ", "f", "a", "i", "l", "e", "d", ":", " ">> \o failure
             IN [error |-> error]

\* Result::Err(constructor(..)): a panic in the constructor leaves no Result.
Err_(failure) == IF failure = Panicked THEN [tag |-> "Panic"] ELSE Err(failure)

\* test_and with the (Err(one), _) arm of the match placed before the (Err, Err) arm.
test_and_arms_reordered(left, right, args) ==
    IF ~args.present THEN
        IF is_ok(left) /\ is_ok(right) THEN Ok
        ELSE IF is_err(left)
            THEN Err_(TestFailure_one_test_failed(left.failure, None))
        ELSE IF is_err(left) /\ is_err(right)
            THEN Err_(TestFailure_two_tests_failed(left.failure, right.failure, None))
        ELSE Err_(TestFailure_one_test_failed(right.failure, None))
    ELSE
        IF is_ok(left) /\ is_ok(right) THEN Ok
        ELSE IF is_err(left)
            THEN Err_(TestFailure_one_test_failed(left.failure, Some(format_args(args))))
        ELSE IF is_err(left) /\ is_err(right)
            THEN Err_(TestFailure_two_tests_failed(left.failure, right.failure, Some(format_args(args))))
        ELSE Err_(TestFailure_one_test_failed(right.failure, Some(format_args(args))))

\* test_and with the annotation left out of the (_, Err(one)) arm of the
\* annotated rule.
test_and_right_unannotated(left, right, args) ==
    IF ~args.present THEN
        IF is_ok(left) /\ is_ok(right) THEN Ok
        ELSE IF is_err(left) /\ is_err(right)
            THEN Err_(TestFailure_two_tests_failed(left.failure, right.failure, None))
        ELSE IF is_err(left)
            THEN Err_(TestFailure_one_test_failed(left.failure, None))
        ELSE Err_(TestFailure_one_test_failed(right.failure, None))
    ELSE
        IF is_ok(left) /\ is_ok(right) THEN Ok
        ELSE IF is_err(left) /\ is_err(right)
            THEN Err_(TestFailure_two_tests_failed(left.failure, right.failure, Some(format_args(args))))
        ELSE IF is_err(left)
            THEN Err_(TestFailure_one_test_failed(left.failure, Some(format_args(args))))
        ELSE Err_(TestFailure_one_test_failed(right.failure, None))

\* macro_rules! test_and: match ($left, $right), the arms of the match in order.
test_and(left, right, args) ==
    IF ~args.present THEN
        IF is_ok(left) /\ is_ok(right) THEN Ok
        ELSE IF is_err(left) /\ is_err(right)
            THEN Err_(TestFailure_two_tests_failed(left.failure, right.failure, None))
        ELSE IF is_err(left)
            THEN Err_(TestFailure_one_test_failed(left.failure, None))
        ELSE Err_(TestFailure_one_test_failed(right.failure, None))
    ELSE
        IF is_ok(left) /\ is_ok(right) THEN Ok
        ELSE IF is_err(left) /\ is_err(right)
            THEN Err_(TestFailure_two_tests_failed(left.failure, right.failure, Some(format_args(args))))
        ELSE IF is_err(left)
            THEN Err_(TestFailure_one_test_failed(left.failure, Some(format_args(args))))
        ELSE Err_(TestFailure_one_test_failed(right.failure, Some(format_args(args))))

\* test_or with test_and's (Err(one), _) arm kept: a failure on the left alone fails.
test_or_left_required(left, right, args) ==
    IF ~args.present THEN
        IF is_err(left) /\ is_err(right)
            THEN Err_(TestFailure_two_tests_failed(left.failure, right.failure, None))
        ELSE IF is_err(left)
            THEN Err_(TestFailure_one_test_failed(left.failure, None))
        ELSE Ok
    ELSE
        IF is_err(left) /\ is_err(right)
            THEN Err_(TestFailure_two_tests_failed(left.failure, right.failure, Some(format_args(args))))
        ELSE IF is_err(left)
            THEN Err_(TestFailure_one_test_failed(left.failure, Some(format_args(args))))
        ELSE Ok

\* macro_rules! test_or: match ($left, $right), the arms of the match in order.
test_or(left, right, args) ==
    IF ~args.present THEN
        IF is_err(left) /\ is_err(right)
            THEN Err_(TestFailure_two_tests_failed(left.failure, right.failure, None))
        ELSE Ok
    ELSE
        IF is_err(left) /\ is_err(right)
            THEN Err_(TestFailure_two_tests_failed(left.failure, right.failure, Some(format_args(args))))
        ELSE Ok

----------------------------------------------------------------------------
\* The invocations explored.

Vals == 0..MaxVal

IntExpr(text, n) == [text |-> text, lit |-> FALSE, val |-> Int_(n)]

IntLit(n) == [text |-> DebugInt(n), lit |-> TRUE, val |-> Int_(n)]

StrExpr(text, s) == [text |-> text, lit |-> FALSE, val |-> Str_(s)]

StrLit(s) == [text |-> <<"\"">> \o s \o <<"\"">>, lit |-> TRUE, val |-> Str_(s)]

ArrExpr(text, items) == [text |-> text, lit |-> FALSE, val |-> Arr_(items)]

\* Sequences of at most MaxItems values.
Items == UNION {[1..k -> Vals] : k \in 0..MaxItems}

DigitString(items) == [i \in 1..Len(items) |-> Digit(items[i])]

\* Left and right operands of test_eq, test_ne, test_le, test_ge: a variable or a literal.
LeftInts == {IntExpr(<<"a">>, n) : n \in Vals} \cup {IntLit(n) : n \in Vals}

RightInts == {IntExpr(<<"b">>, n) : n \in Vals} \cup {IntLit(n) : n \in Vals}

\* String operands: a one-character left operand, a right operand of at most
\* MaxItems characters, each a variable or a string literal.
LeftStrs == {StrExpr(<<"a">>, <<Digit(n)>>) : n \in Vals} \cup {StrLit(<<Digit(n)>>) : n \in Vals}

RightStrs ==
    {StrLit(DigitString(items)) : items \in Items}
    \cup {StrExpr(<<"s">>, DigitString(items)) : items \in Items}

\* Operand pairs of test_any, test_not_any: an integer and an array expression, or
\* two strings.
ContainsPairs ==
    (LeftInts \X {ArrExpr(<<"c">>, items) : items \in Items}) \cup (LeftStrs \X RightStrs)

\* The operands of the crate's own tests: let a = 5; let b = 19;
Examples == {<<IntExpr(<<"a">>, 5), IntExpr(<<"b">>, 19)>>}

\* The annotation tokens of an invocation: none, or a format string with its arguments.
NoArgs == [present |-> FALSE, fmt |-> <<>>]

WithArgs(fmt) == [present |-> TRUE, fmt |-> fmt]

Annotations == {NoArgs, WithArgs(<<"m">>)}

\* Messages handed to test_failed_no_ident by a caller.
RawMessages == {<<>>, <<"x", "\n", "\n", "y", "\n">>}

\* Values of the sub-assertion expressions handed to test_and / test_or.
Leaves ==
    {Ok}
    \cup {Err(TestFailure_test_failed_no_ident(m, None)) : m \in RawMessages}
    \cup {Err(TestFailure_test_failed_no_ident(<<"x">>, Some(<<"m">>)))}
    \cup {test_ge(lhs, rhs, NoArgs)}

NoCall == [macro |-> "none"]

NoTree == [depth |-> 0, and_only |-> TRUE, leaves_ok |-> TRUE, origin |-> Ok, kept |-> FALSE]

NoFrame == [fn |-> "none"]

\* The comparisons: any pair of operands the bounds allow, no combinator state.
Init ==
    /\ line_info \in BOOLEAN
    /\ \E pair \in (LeftInts \X RightInts) \cup ContainsPairs \cup Examples :
            lhs = pair[1] /\ rhs = pair[2]
    /\ call = NoCall
    /\ result = Ok
    /\ tree = NoTree
    /\ pc = "idle"
    /\ frame = NoFrame

\* The combinators: the operands of the documentation's examples (a = 5, b = 10).
InitCombine ==
    /\ line_info \in BOOLEAN
    /\ lhs = IntExpr(<<"a">>, 5)
    /\ rhs = IntExpr(<<"b">>, 10)
    /\ call = NoCall
    /\ result = Ok
    /\ tree = NoTree
    /\ pc = "idle"
    /\ frame = NoFrame

\* The operands evaluated on demand, as && and || would: the right one is not
\* evaluated before the left one's result is inspected.
match_operands_on_demand == <<"left">>

\* match (&$left, &$right) { .. }, match ($left, $right) { .. }: the operand
\* expressions are evaluated where the tuple is built, once each, in the order
\* of its fields; stringify!($left) evaluates nothing.
match_operands == <<"left", "right">>

\* The annotation formatted ahead of the test, as a message passed by value
\* would be.
evaluated_annotation_first(args, failed) ==
    match_operands \o (IF args.present THEN <<"args">> ELSE <<>>)

\* The failing branch handing $left to the constructor once more, in place of
\* the reborrow &*left_val.
evaluated_operand_again(args, failed) ==
    match_operands \o (IF failed THEN <<"left">> ELSE <<>>)
    \o (IF failed /\ args.present THEN <<"args">> ELSE <<>>)

\* The expressions an invocation evaluates, in order: the scrutinee, then, in the
\* failing branch only, the arguments of the annotation in format_args!; the
\* operands reach the constructor as the reborrows &*left_val, &*right_val.
evaluated(args, failed) ==
    match_operands \o (IF failed /\ args.present THEN <<"args">> ELSE <<>>)

Invoke(macro, left, right, args, r) ==
    /\ call' = [macro |-> macro, left |-> left, right |-> right, args |-> args,
                evals |-> evaluated(args, is_err(r))]
    /\ result' = r

\* The operand types for which the relation compiles: == and != on two integers
\* or two strings, <= and >= on two integers.
Equatable == lhs.val.kind = rhs.val.kind

Comparable == lhs.val.kind = "int" /\ rhs.val.kind = "int"

Containable ==
    \/ lhs.val.kind = "int" /\ rhs.val.kind = "arr"
    \/ lhs.val.kind = "str" /\ rhs.val.kind = "str"

TestEq ==
    \E args \in Annotations :
        /\ Equatable
        /\ Invoke("test_eq", lhs, rhs, args, test_eq(lhs, rhs, args))
        /\ UNCHANGED <<line_info, lhs, rhs, tree, pc, frame>>

TestNe ==
    \E args \in Annotations :
        /\ Equatable
        /\ Invoke("test_ne", lhs, rhs, args, test_ne(lhs, rhs, args))
        /\ UNCHANGED <<line_info, lhs, rhs, tree, pc, frame>>

TestAny ==
    \E args \in Annotations :
        /\ Containable
        /\ Invoke("test_any", lhs, rhs, args, test_any(lhs, rhs, args))
        /\ UNCHANGED <<line_info, lhs, rhs, tree, pc, frame>>

TestNotAny ==
    \E args \in Annotations :
        /\ Containable
        /\ Invoke("test_not_any", lhs, rhs, args, test_not_any(lhs, rhs, args))
        /\ UNCHANGED <<line_info, lhs, rhs, tree, pc, frame>>

TestLe ==
    \E args \in Annotations :
        /\ Comparable
        /\ Invoke("test_le", lhs, rhs, args, test_le(lhs, rhs, args))
        /\ UNCHANGED <<line_info, lhs, rhs, tree, pc, frame>>

TestGe ==
    \E args \in Annotations :
        /\ Comparable
        /\ Invoke("test_ge", lhs, rhs, args, test_ge(lhs, rhs, args))
        /\ UNCHANGED <<line_info, lhs, rhs, tree, pc, frame>>

\* A sub-assertion expression is evaluated on its own: its Result is an operand
\* of the combinator that follows.
EvalFirst ==
    \E leaf \in Leaves :
        /\ call' = [macro |-> "leaf"]
        /\ result' = leaf
        /\ tree' = [depth |-> 0, and_only |-> TRUE, leaves_ok |-> is_ok(leaf),
                    origin |-> leaf, kept |-> is_err(leaf)]
        /\ UNCHANGED <<line_info, lhs, rhs, pc, frame>>

\* The last Result is nested in a combinator, whose other operand is `leaf`.
\* `origin` is the innermost sub-assertion, `kept` whether its failure is still
\* part of the Result.
Nested(macro, leaf) ==
    /\ tree' = [depth |-> tree.depth + 1,
                and_only |-> tree.and_only /\ macro = "test_and",
                leaves_ok |-> tree.leaves_ok /\ is_ok(leaf),
                origin |-> tree.origin,
                kept |-> tree.kept /\ is_err(result')]
    /\ UNCHANGED <<line_info, lhs, rhs, pc, frame>>

\* test_and!(left, right [, annotation]): one operand is the last Result, the
\* other the Result of a sub-assertion, on either side.
TestAnd ==
    \E leaf \in Leaves, args \in Annotations, nested_left \in BOOLEAN :
        LET left == IF nested_left THEN result ELSE leaf
            right == IF nested_left THEN leaf ELSE result
        IN  /\ tree.depth < MaxDepth
            /\ result.tag # "Panic"
            /\ Invoke("test_and", left, right, args, test_and(left, right, args))
            /\ Nested("test_and", leaf)

\* test_or!(left, right [, annotation]), likewise.
TestOr ==
    \E leaf \in Leaves, args \in Annotations, nested_left \in BOOLEAN :
        LET left == IF nested_left THEN result ELSE leaf
            right == IF nested_left THEN leaf ELSE result
        IN  /\ tree.depth < MaxDepth
            /\ result.tag # "Panic"
            /\ Invoke("test_or", left, right, args, test_or(left, right, args))
            /\ Nested("test_or", leaf)

\* The comparison macros.
Next == TestEq \/ TestNe \/ TestAny \/ TestNotAny \/ TestLe \/ TestGe

Spec == Init /\ [][Next]_vars

\* The combinator macros over the Results of sub-assertions.
NextCombine == EvalFirst \/ TestAnd \/ TestOr

SpecCombine == InitCombine /\ [][NextCombine]_vars

----------------------------------------------------------------------------
\* two_tests_failed and one_test_failed run statement by statement.

\* A by-value parameter whose String has been moved out of it.
Moved == [moved |-> TRUE]

\* No TestFailure has been returned yet.
NoReturn == [returned |-> FALSE]

\* The characters of the messages, as their UTF-8 bytes: x, a newline, and a
\* character of two bytes (a lead byte and a continuation byte).
Chars == {<<"x">>, <<"\n">>, <<"0xC3", "0xA9">>}

\* The bytes of a sequence of characters.
RECURSIVE Bytes(_)
Bytes(chars) == IF Len(chars) = 0 THEN <<>> ELSE Head(chars) \o Bytes(Tail(chars))

\* The messages of the failures handed to the constructor: every string of at
\* most MaxLen of these characters (the empty one included).
Messages == {Bytes(chars) : chars \in UNION {[1..n -> Chars] : n \in 0..MaxLen}}

\* str::is_char_boundary: the start, the end, or a byte that is not a
\* continuation byte.
is_char_boundary(s, index) ==
    \/ index = 0
    \/ index = Len(s)
    \/ index < Len(s) /\ s[index + 1] # "0xA9"

\* A call of either constructor on any messages, with or without annotation.
\* one_test_failed has the one parameter `failure`, held in the slot `first`.
InitMerge ==
    /\ line_info = FALSE
    /\ lhs = IntExpr(<<"a">>, 5)
    /\ rhs = IntExpr(<<"b">>, 10)
    /\ call = NoCall
    /\ result = Ok
    /\ tree = NoTree
    /\ pc = "entry"
    /\ \E fn \in {"two_tests_failed", "one_test_failed"}, first \in Messages, second \in Messages,
          args \in {None, Some(<<"m">>)} :
            /\ fn = "one_test_failed" => second = <<>>
            /\ frame = [fn |-> fn,
                        params |-> [first |-> [error |-> first],
                                    second |-> IF fn = "two_tests_failed" THEN [error |-> second] ELSE Moved],
                        args |-> args,
                        first |-> <<>>,
                        second |-> <<>>,
                        start_of_search |-> 0,
                        ret |-> NoReturn,
                        input |-> [first |-> first, second |-> second],
                        iterations |-> [first |-> 0, second |-> 0]]

\* The String the loop at pc works on.
searched == IF pc = "loop_first" THEN frame.first ELSE frame.second

\* The locals as mutable borrows of the parameters' Strings
\* (let first = &mut first.error;): the parameters stay what they were.
LetLocals_borrowed ==
    /\ pc = "entry"
    /\ pc' = "loop_first"
    /\ frame' = [frame EXCEPT !.first = frame.params.first.error,
                              !.second = IF frame.fn = "two_tests_failed"
                                         THEN frame.params.second.error ELSE <<>>,
                              !.start_of_search = 0]
    /\ UNCHANGED <<line_info, lhs, rhs, call, result, tree>>

\* let mut first = first.error; let mut second = second.error;
\* let mut start_of_search = 0;
LetLocals ==
    /\ pc = "entry"
    /\ pc' = "loop_first"
    /\ frame' = [frame EXCEPT !.params = [first |-> Moved, second |-> Moved],
                              !.first = frame.params.first.error,
                              !.second = IF frame.fn = "two_tests_failed"
                                         THEN frame.params.second.error ELSE <<>>,
                              !.start_of_search = 0]
    /\ UNCHANGED <<line_info, lhs, rhs, call, result, tree>>

\* start_of_search += position + 5: past the inserted spaces and one byte more.
next_start_of_search_beyond(start_of_search, position) == start_of_search + position + 5

\* start_of_search += position + 4: past the inserted spaces, to the byte that
\* follows them.
next_start_of_search_skips(start_of_search, position) == start_of_search + position + 4

\* start_of_search += position + 3;
next_start_of_search(start_of_search, position) == start_of_search + position + 3

\* One iteration: find returned Some(position); insert three spaces after the
\* newline and move the start of the search.
LoopBody ==
    /\ pc \in {"loop_first", "loop_second"}
    /\ frame.start_of_search <= Len(searched)
    /\ LET position == find(searched, frame.start_of_search)
           indented == insert_str(searched, frame.start_of_search + position + 1, <<" ", " ", " ">>)
       IN  /\ position # -1
           /\ frame.start_of_search + position + 1 <= Len(searched)
           /\ frame' = [frame EXCEPT !.first = IF pc = "loop_first" THEN indented ELSE @,
                                     !.second = IF pc = "loop_second" THEN indented ELSE @,
                                     !.start_of_search = next_start_of_search(@, position),
                                     !.iterations.first = IF pc = "loop_first" THEN @ + 1 ELSE @,
                                     !.iterations.second = IF pc = "loop_second" THEN @ + 1 ELSE @]
    /\ pc' = pc
    /\ UNCHANGED <<line_info, lhs, rhs, call, result, tree>>

\* find returned None: the loop is left; two_tests_failed goes on to its second
\* loop with a new start_of_search.
LoopExit ==
    /\ pc \in {"loop_first", "loop_second"}
    /\ frame.start_of_search <= Len(searched)
    /\ find(searched, frame.start_of_search) = -1
    /\ IF pc = "loop_first" /\ frame.fn = "two_tests_failed"
       THEN pc' = "loop_second" /\ frame' = [frame EXCEPT !.start_of_search = 0]
       ELSE pc' = "format" /\ frame' = frame
    /\ UNCHANGED <<line_info, lhs, rhs, call, result, tree>>

\* let error = if let Some(args) = args { format!(..) } else { format!(..) };
\* Self { error }
Format ==
    /\ pc = "format"
    /\ pc' = "returned"
    /\ LET args == frame.args
           first == frame.first
           second == frame.second
           error ==
                IF frame.fn = "two_tests_failed"
                THEN IF args.some
                     THEN <<"B", "o", "t", "h", " ", "t", "e", "s", "t", "s", " ", "f", "a", "i", "l", "e", "d", ":", " ">> \o args.text \o <<"\n", "1", ":", " ">> \o first \o <<"\n", "2", ":", " ">> \o second
                     ELSE <<"B", "o", "t", "h", " ", "t", "e", "s", "t", "s", " ", "f", "a", "i", "l", "e", "d", ":", "\n", "1", ":", " ">> \o first \o <<"\n", "2", ":", " ">> \o second
                ELSE IF args.some
                     THEN <<"O", "n", "e", " ", "o", "f", " ", "t", "h", "e", " ", "t", "e", "s", "t", "s", " ", "f", "a", "i", "l", "e", "d", ":", " ">> \o args.text \o <<"\n", " ", " ", " ">> \o first
                     ELSE <<"O", "n", "e", " ", "o", "f", " ", "t", "h", "e", " ", "t", "e", "s", "t", "s", " ", "f", "a", "i", "l", "e", "d", ":", " ">> \o first
       IN  frame' = [frame EXCEPT !.ret = [error |-> error]]
    /\ UNCHANGED <<line_info, lhs, rhs, call, result, tree>>

NextMerge == LetLocals \/ LoopBody \/ LoopExit \/ Format

\* The constructor runs on one thread and is never suspended for good.
SpecMerge == InitMerge /\ [][NextMerge]_vars /\ WF_vars(NextMerge)

----------------------------------------------------------------------------
\* Formatting a TestFailure and the Result that holds it.

\* <str as Debug>::fmt without the quotes: a newline becomes \n, a quote \", a
\* backslash \\ (by halves, so that the evaluation stays shallow).
RECURSIVE escape_debug(_)
escape_debug(s) ==
    IF Len(s) = 0 THEN <<>>
    ELSE IF Len(s) = 1
         THEN (CASE s[1] = "\n" -> <<"\\", "n">>
                 [] s[1] = "\"" -> <<"\\", "\"">>
                 [] s[1] = "\\" -> <<"\\", "\\">>
                 [] OTHER -> s)
    ELSE escape_debug(SubSeq(s, 1, Len(s) \div 2)) \o escape_debug(SubSeq(s, Len(s) \div 2 + 1, Len(s)))

\* impl Display for TestFailure: f.write_str(&self.error)
TestFailure_Display_fmt(self) == self.error

\* Debug as #[derive(Debug)] would write it: TestFailure { error: "<escaped>" }.
TestFailure_Debug_fmt_derived(self) ==
    <<"T", "e", "s", "t", "F", "a", "i", "l", "u", "r", "e", " ", "{", " ", "e", "r", "r", "o", "r", ":", " ">> \o <<"\"">> \o escape_debug(self.error) \o <<"\"">> \o <<" ", "}">>

\* impl Debug for TestFailure: <Self as Display>::fmt(self, f)
TestFailure_Debug_fmt(self) == TestFailure_Display_fmt(self)

\* {:?} of a Result<(), TestFailure>, as in println!("{:?}", test_eq!(..)).
Result_Debug_fmt(r) ==
    IF is_ok(r) THEN <<"O", "k", "(", "(", ")", ")">>
    ELSE <<"E", "r", "r", "(">> \o TestFailure_Debug_fmt(r.failure) \o <<")">>

----------------------------------------------------------------------------
\* Vocabulary of the properties.

\* p is a prefix of s.
StartsWith(s, p) == Len(p) <= Len(s) /\ SubSeq(s, 1, Len(p)) = p

\* p occurs in s.
Occurs(p, s) == \E i \in 0..(Len(s) - Len(p)) : SubSeq(s, i + 1, i + Len(p)) = p

\* The reference re-indentation: every "\n" replaced by "\n   " (by halves, so
\* that the evaluation stays shallow on long messages).
RECURSIVE Indented(_)
Indented(s) ==
    IF Len(s) = 0 THEN <<>>
    ELSE IF Len(s) = 1 THEN (IF s[1] = "\n" THEN <<"\n", " ", " ", " ">> ELSE s)
    ELSE Indented(SubSeq(s, 1, Len(s) \div 2)) \o Indented(SubSeq(s, Len(s) \div 2 + 1, Len(s)))

\* The right operand holds the left one: an array has it as an item, a string has
\* the (one-character) left string as a character.
Holds(right_val, left_val) ==
    IF right_val.kind = "arr"
    THEN left_val.n \in {right_val.items[i] : i \in DOMAIN right_val.items}
    ELSE left_val.s[1] \in {right_val.s[i] : i \in DOMAIN right_val.s}

\* The same two values written as other operand expressions (a variable or a literal).
SameValueAs(operand_) ==
    {o \in LeftInts \cup RightInts \cup LeftStrs \cup RightStrs : o.val = operand_.val}

\* Two integers, or two strings, are the same value.
Equal(left_val, right_val) ==
    IF left_val.kind = "int"
    THEN left_val.n = right_val.n
    ELSE /\ Len(left_val.s) = Len(right_val.s)
         /\ \A i \in 1..Len(left_val.s) : left_val.s[i] = right_val.s[i]

\* The message of a failing Result.
error_of(r) == r.failure.error

\* The annotation part of a header: ": <annotation>" when there is one.
AnnotationPart(args) == IF args.present THEN <<":", " ">> \o args.fmt ELSE <<>>

----------------------------------------------------------------------------
\* C1: test_eq returns Ok exactly when left == right and Err exactly when
\* left != right, whatever the operand values and whichever arm of the macro the
\* invocation selects (literal or variable operands, with or without annotation).
Thm_C1 ==
    call.macro = "test_eq" =>
        /\ is_ok(result) <=> Equal(call.left.val, call.right.val)
        /\ is_err(result) <=> ~Equal(call.left.val, call.right.val)

\* test_eq failed in the arm for a variable, a literal and an annotation.
Wit_C1 ==
    /\ call.macro = "test_eq"
    /\ ~call.left.lit /\ call.right.lit /\ call.args.present
    /\ is_err(result)

\* C2: test_eq and test_ne are complementary: on the same two values, in whatever
\* operand shape and with or without annotation, exactly one of them is Ok and the
\* other is Err.
Thm_C2 ==
    /\ call.macro = "test_eq" =>
        \A l \in SameValueAs(call.left), r \in SameValueAs(call.right), args \in Annotations :
            \/ is_ok(result) /\ is_err(test_ne(l, r, args))
            \/ is_err(result) /\ is_ok(test_ne(l, r, args))
    /\ call.macro = "test_ne" =>
        \A l \in SameValueAs(call.left), r \in SameValueAs(call.right), args \in Annotations :
            \/ is_ok(result) /\ is_err(test_eq(l, r, args))
            \/ is_err(result) /\ is_ok(test_eq(l, r, args))

\* test_ne failed on two equal values where test_eq passes.
Wit_C2 ==
    /\ call.macro = "test_ne"
    /\ is_err(result)
    /\ is_ok(test_eq(call.left, call.right, call.args))

\* C3: test_le(a, b) is Ok iff test_ge(b, a) is Ok; test_ge(a, b) is Ok exactly
\* when a >= b; test_ge(a, a) and test_le(a, a) are Ok.
Thm_C3 ==
    /\ call.macro = "test_le" =>
        /\ \A args \in Annotations :
                is_ok(result) <=> is_ok(test_ge(call.right, call.left, args))
        /\ call.left.val = call.right.val => is_ok(result)
    /\ call.macro = "test_ge" =>
        /\ is_ok(result) <=> call.left.val.n >= call.right.val.n
        /\ is_err(result) <=> call.left.val.n < call.right.val.n
        /\ \A args \in Annotations :
                is_ok(result) <=> is_ok(test_le(call.right, call.left, args))
        /\ call.left.val = call.right.val => is_ok(result)

\* test_le(a, b) failed with a > b, and test_ge(b, a) fails with it.
Wit_C3 ==
    /\ call.macro = "test_le"
    /\ is_err(result)
    /\ call.left.val.n > call.right.val.n
    /\ is_err(test_ge(call.right, call.left, call.args))

\* C4: test_any(left, right) returns Ok exactly when right holds left and Err
\* otherwise, in every arm of the macro.
Thm_C4 ==
    call.macro = "test_any" =>
        /\ is_ok(result) <=> Holds(call.right.val, call.left.val)
        /\ is_err(result) <=> ~Holds(call.right.val, call.left.val)

\* test_any failed on a two-item array without the left value, with an annotation.
Wit_C4 ==
    /\ call.macro = "test_any"
    /\ call.right.val.kind = "arr" /\ Len(call.right.val.items) = MaxItems
    /\ call.args.present
    /\ is_err(result)

\* C5: test_not_any(left, right) returns Ok exactly when right does not hold left
\* and Err exactly when it does, in every arm of the macro.
Claim_C5 ==
    call.macro = "test_not_any" =>
        /\ is_ok(result) <=> ~Holds(call.right.val, call.left.val)
        /\ is_err(result) <=> Holds(call.right.val, call.left.val)

----------------------------------------------------------------------------
\* C6: test_and is the logical AND of two outcomes: (Ok, Ok) gives Ok; (Err, Err)
\* gives an Err whose message starts with "Both tests failed"; one Err on either
\* side gives an Err whose message starts with "One of the tests failed"; and
\* under any nesting of test_and alone the result is Ok iff every leaf is Ok.
Thm_C6 ==
    /\ call.macro = "test_and" =>
        /\ is_ok(call.left) /\ is_ok(call.right) => result = Ok
        /\ is_err(call.left) /\ is_err(call.right) =>
                is_err(result) /\ StartsWith(error_of(result), <<"B", "o", "t", "h", " ", "t", "e", "s", "t", "s", " ", "f", "a", "i", "l", "e", "d">>)
        /\ is_err(call.left) /\ is_ok(call.right) =>
                is_err(result) /\ StartsWith(error_of(result), <<"O", "n", "e", " ", "o", "f", " ", "t", "h", "e", " ", "t", "e", "s", "t", "s", " ", "f", "a", "i", "l", "e", "d">>)
        /\ is_ok(call.left) /\ is_err(call.right) =>
                is_err(result) /\ StartsWith(error_of(result), <<"O", "n", "e", " ", "o", "f", " ", "t", "h", "e", " ", "t", "e", "s", "t", "s", " ", "f", "a", "i", "l", "e", "d">>)
    /\ tree.depth > 0 /\ tree.and_only => (is_ok(result) <=> tree.leaves_ok)

\* A test_and nested in a test_and failed because both of its operands failed.
Wit_C6 ==
    /\ call.macro = "test_and"
    /\ tree.depth = 2 /\ tree.and_only
    /\ is_err(call.left) /\ is_err(call.right)
    /\ is_err(result)

\* C7: test_or is the logical OR of two outcomes: it returns Err only for
\* (Err, Err), with a message that starts with "Both tests failed" and holds both
\* (re-indented) sub-messages; in every other case it returns Ok, which carries
\* nothing of the failing branch.
Thm_C7 ==
    call.macro = "test_or" =>
        /\ is_err(result) <=> is_err(call.left) /\ is_err(call.right)
        /\ is_err(call.left) /\ is_err(call.right) =>
                /\ StartsWith(error_of(result), <<"B", "o", "t", "h", " ", "t", "e", "s", "t", "s", " ", "f", "a", "i", "l", "e", "d">>)
                /\ Occurs(Indented(error_of(call.left)), error_of(result))
                /\ Occurs(Indented(error_of(call.right)), error_of(result))
        /\ ~(is_err(call.left) /\ is_err(call.right)) => result = Ok

\* test_or passed although its left operand failed.
Wit_C7 ==
    /\ call.macro = "test_or"
    /\ is_err(call.left) /\ is_ok(call.right)
    /\ result = Ok

\* A failing operand reaches the result: the result is an Err whose message holds
\* the operand's whole message, re-indented.
Reaches(input) == is_err(result) /\ Occurs(Indented(error_of(input)), error_of(result))

\* C8: no failure is dropped by a combinator: test_and with at least one Err
\* returns Err and every failing operand reaches the result; a failing operand
\* that does not reach the result is an operand of test_or whose other operand
\* is Ok.
Thm_C8 ==
    /\ call.macro = "test_and" =>
        /\ is_err(call.left) \/ is_err(call.right) => is_err(result)
        /\ is_err(call.left) => Reaches(call.left)
        /\ is_err(call.right) => Reaches(call.right)
    /\ call.macro \in {"test_and", "test_or"} =>
        /\ is_err(call.left) /\ ~Reaches(call.left) =>
                call.macro = "test_or" /\ is_ok(call.right)
        /\ is_err(call.right) /\ ~Reaches(call.right) =>
                call.macro = "test_or" /\ is_ok(call.left)

\* test_and received two failures of several lines each and returned an Err.
Wit_C8 ==
    /\ call.macro = "test_and"
    /\ is_err(call.left) /\ is_err(call.right)
    /\ Occurs(<<"\n">>, error_of(call.left)) /\ Occurs(<<"\n">>, error_of(call.right))
    /\ is_err(result)

\* The one failing operand of a test_and invocation.
OneFailed ==
    IF is_err(call.left) THEN call.left ELSE call.right

ExactlyOneFailed ==
    /\ call.macro = "test_and"
    /\ is_err(call.left) # is_err(call.right)

\* C9: with and without an annotation, one_test_failed renders "One of the tests
\* failed", then ": <annotation>" when there is one, a newline, three spaces and
\* the re-indented failure.
Claim_C9 ==
    ExactlyOneFailed =>
        /\ is_err(result)
        /\ error_of(result) =
                <<"O", "n", "e", " ", "o", "f", " ", "t", "h", "e", " ", "t", "e", "s", "t", "s", " ", "f", "a", "i", "l", "e", "d">> \o AnnotationPart(call.args)
                \o <<"\n", " ", " ", " ">> \o Indented(error_of(OneFailed))

\* C9 as the code has it: with an annotation the message is "One of the tests
\* failed: <annotation>", a newline, three spaces and the re-indented failure;
\* without one it is "One of the tests failed: " followed on the same line by
\* the re-indented failure.
Thm_C9 ==
    ExactlyOneFailed =>
        /\ is_err(result)
        /\ error_of(result) =
                IF call.args.present
                THEN <<"O", "n", "e", " ", "o", "f", " ", "t", "h", "e", " ", "t", "e", "s", "t", "s", " ", "f", "a", "i", "l", "e", "d", ":", " ">> \o call.args.fmt
                     \o <<"\n", " ", " ", " ">> \o Indented(error_of(OneFailed))
                ELSE <<"O", "n", "e", " ", "o", "f", " ", "t", "h", "e", " ", "t", "e", "s", "t", "s", " ", "f", "a", "i", "l", "e", "d", ":", " ">> \o Indented(error_of(OneFailed))

\* test_and without annotation rendered its one failing operand, of several lines.
Wit_C9 ==
    /\ ExactlyOneFailed
    /\ ~call.args.present
    /\ Occurs(<<"\n">>, error_of(OneFailed))
    /\ is_err(result)

BothFailed ==
    /\ call.macro \in {"test_and", "test_or"}
    /\ is_err(call.left) /\ is_err(call.right)

\* C10: two_tests_failed renders "Both tests failed", then ": <annotation>" only
\* when there is one (no colon otherwise), then the line "1: <re-indented a>",
\* then the line "2: <re-indented b>".
Claim_C10 ==
    BothFailed =>
        /\ is_err(result)
        /\ error_of(result) =
                <<"B", "o", "t", "h", " ", "t", "e", "s", "t", "s", " ", "f", "a", "i", "l", "e", "d">> \o AnnotationPart(call.args)
                \o <<"\n", "1", ":", " ">> \o Indented(error_of(call.left))
                \o <<"\n", "2", ":", " ">> \o Indented(error_of(call.right))

\* C10 as the code has it: the header is "Both tests failed:" with its colon in
\* both cases, followed by " <annotation>" when there is one, then the line
\* "1: <re-indented a>", then the line "2: <re-indented b>".
Thm_C10 ==
    BothFailed =>
        /\ is_err(result)
        /\ error_of(result) =
                <<"B", "o", "t", "h", " ", "t", "e", "s", "t", "s", " ", "f", "a", "i", "l", "e", "d", ":">>
                \o (IF call.args.present THEN <<" ">> \o call.args.fmt ELSE <<>>)
                \o <<"\n", "1", ":", " ">> \o Indented(error_of(call.left))
                \o <<"\n", "2", ":", " ">> \o Indented(error_of(call.right))

\* test_or without annotation rendered two failures.
Wit_C10 ==
    /\ call.macro = "test_or"
    /\ is_err(call.left) /\ is_err(call.right)
    /\ ~call.args.present
    /\ is_err(result)

\* p occurs in s at offset i.
OccursAt(p, s, i) == i + Len(p) <= Len(s) /\ SubSeq(s, i + 1, i + Len(p)) = p

\* C11: in every two-failure message, of test_and and of test_or alike, the
\* failure of the left argument is rendered under the label "1:" and the failure
\* of the right argument under the label "2:", the first wholly before the second.
Thm_C11 ==
    BothFailed =>
        /\ is_err(result)
        /\ LET one == <<"\n", "1", ":", " ">> \o Indented(error_of(call.left))
               two == <<"\n", "2", ":", " ">> \o Indented(error_of(call.right))
               error == error_of(result)
           IN  \E i \in 0..Len(error) :
                    /\ OccursAt(one, error, i)
                    /\ OccursAt(two, error, i + Len(one))
                    /\ i + Len(one) + Len(two) = Len(error)

\* test_or merged two different failures, the left one of a single line and the
\* right one of several lines.
Wit_C11 ==
    /\ call.macro = "test_or"
    /\ is_err(call.left) /\ is_err(call.right)
    /\ error_of(call.left) # error_of(call.right)
    /\ ~Occurs(<<"\n">>, error_of(call.left)) /\ Occurs(<<"\n">>, error_of(call.right))
    /\ is_err(result)

----------------------------------------------------------------------------
\* C12: for every input message, the empty one, one that ends in a newline and
\* one with consecutive newlines included, the re-indentation of one_test_failed
\* and of two_tests_failed yields the input with three spaces inserted after
\* each newline and nothing before the first line: every "\n" replaced by
\* "\n   ".
Thm_C12 ==
    /\ pc \in {"loop_second", "format", "returned"} =>
            frame.first = Indented(frame.input.first)
    /\ pc \in {"format", "returned"} /\ frame.fn = "two_tests_failed" =>
            frame.second = Indented(frame.input.second)
    /\ pc = "returned" =>
            frame.ret = IF frame.fn = "two_tests_failed"
                        THEN TestFailure_two_tests_failed([error |-> frame.input.first],
                                                          [error |-> frame.input.second], frame.args)
                        ELSE TestFailure_one_test_failed([error |-> frame.input.first], frame.args)
    /\ pc = "entry" => reindent(frame.input.first) = Indented(frame.input.first)

\* two_tests_failed returned after re-indenting a message of consecutive newlines
\* that ends in a newline, and the empty message.
Wit_C12 ==
    /\ pc = "returned"
    /\ frame.fn = "two_tests_failed"
    /\ frame.input.first = <<"x", "\n", "\n">>
    /\ frame.input.second = <<>>
    /\ frame.first = <<"x", "\n", " ", " ", " ", "\n", " ", " ", " ">>

\* n spaces.
RECURSIVE Spaces(_)
Spaces(n) == IF n = 0 THEN <<>> ELSE <<" ">> \o Spaces(n - 1)

\* s with n spaces inserted after each newline.
RECURSIVE IndentedBy(_, _)
IndentedBy(s, n) ==
    IF Len(s) = 0 THEN <<>>
    ELSE IF Len(s) = 1 THEN (IF s[1] = "\n" THEN <<"\n">> \o Spaces(n) ELSE s)
    ELSE IndentedBy(SubSeq(s, 1, Len(s) \div 2), n) \o IndentedBy(SubSeq(s, Len(s) \div 2 + 1, Len(s)), n)

\* C13: indentation is applied once per nesting level: the message of a failed
\* sub-assertion nested under n merges is in the result with exactly 3n spaces
\* after each of its newlines (3n, and not 3(n + 1)), at the start of each of
\* its continuation lines.
Thm_C13 ==
    tree.depth > 0 /\ tree.kept =>
        /\ is_err(result)
        /\ Occurs(IndentedBy(error_of(tree.origin), 3 * tree.depth), error_of(result))
        /\ Occurs(<<"\n">>, error_of(tree.origin)) =>
                ~Occurs(IndentedBy(error_of(tree.origin), 3 * (tree.depth + 1)), error_of(result))

\* A failure of several lines is nested under two merges, the outer one a
\* test_and with a passing operand.
Wit_C13 ==
    /\ tree.depth = 2 /\ tree.kept
    /\ call.macro = "test_and"
    /\ is_ok(call.left) \/ is_ok(call.right)
    /\ Occurs(<<"\n">>, error_of(tree.origin))
    /\ is_err(result)

----------------------------------------------------------------------------
Comparisons == {"test_eq", "test_ne", "test_any", "test_not_any", "test_le", "test_ge"}

\* A comparison was invoked and failed.
ComparisonFailed == call.macro \in Comparisons /\ is_err(result)

\* The header of the invocation: what precedes the annotation and the detail lines.
HeaderOf(c) ==
    CASE c.macro = "test_eq" -> test_eq_message(c.left, c.right)
      [] c.macro = "test_ne" -> test_ne_message(c.left, c.right)
      [] c.macro = "test_any" -> test_any_message(c.left, c.right)
      [] c.macro = "test_not_any" -> test_not_any_message(c.left, c.right)
      [] c.macro = "test_le" -> test_le_message(c.left, c.right)
      [] c.macro = "test_ge" -> test_ge_message(c.left, c.right)

\* The line "<name>: <debug value>" of an operand, after a newline.
DetailLine(operand_) == <<"\n">> \o operand_.text \o <<":", " ">> \o Debug(operand_.val)

\* C14: the message of a failed comparison is the header, then ": <annotation>"
\* only when there is an annotation, then one line "<name>: <debug value>" per
\* displayed operand, the left one before the right one, and no newline at the
\* end; test_eq(a, b) with a = 5, b = 19 and no location gives
\* "Test failed: a != b\na: 5\nb: 19".
Thm_C14 ==
    ComparisonFailed =>
        LET error == error_of(result)
            head == HeaderOf(call) \o AnnotationPart(call.args)
        IN  /\ \/ error = head \o DetailLine(call.left) \o DetailLine(call.right)
               \/ error = head \o DetailLine(call.left)
               \/ error = head \o DetailLine(call.right)
            /\ error[Len(error)] # "\n"
            /\ ( /\ call.macro = "test_eq" /\ ~line_info /\ ~call.args.present
                 /\ call.left = IntExpr(<<"a">>, 5) /\ call.right = IntExpr(<<"b">>, 19) ) =>
                    error = <<"T", "e", "s", "t", " ", "f", "a", "i", "l", "e", "d", ":", " ", "a", " ", "!", "=", " ", "b", "\n", "a", ":", " ", "5", "\n", "b", ":", " ", "1", "9">>

\* test_eq(a, b) failed with a = 5, b = 19, without location and annotation.
Wit_C14 ==
    /\ call.macro = "test_eq" /\ ~line_info /\ ~call.args.present
    /\ call.left = IntExpr(<<"a">>, 5) /\ call.right = IntExpr(<<"b">>, 19)
    /\ is_err(result)

\* The number of newlines in s.
RECURSIVE Newlines(_)
Newlines(s) ==
    IF Len(s) = 0 THEN 0
    ELSE (IF s[Len(s)] = "\n" THEN 1 ELSE 0) + Newlines(SubSeq(s, 1, Len(s) - 1))

Negated(macro, left_text, right_text) ==
    CASE macro = "test_eq" -> left_text \o <<" ", "!", "=", " ">> \o right_text
      [] macro = "test_ne" -> left_text \o <<" ", "=", "=", " ">> \o right_text
      [] macro = "test_le" -> left_text \o <<" ", ">", " ">> \o right_text
      [] macro = "test_ge" -> left_text \o <<" ", "<", " ">> \o right_text
      [] macro = "test_any" -> <<"!">> \o right_text \o <<".", "c", "o", "n", "t", "a", "i", "n", "s", "(">> \o left_text \o <<")">>
      [] macro = "test_not_any" -> right_text \o <<".", "c", "o", "n", "t", "a", "i", "n", "s", "(">> \o left_text \o <<")">>

\* s without its first n characters.
Drop(s, n) == SubSeq(s, n + 1, Len(s))

\* C17: the failure header of each relation is "Test failed: " followed by the
\* relation's negated symbol between the two operand texts (test_eq "l != r",
\* test_ne "l == r", test_le "l > r", test_ge "l < r", test_any
\* "!r.contains(l)", test_not_any "r.contains(l)"), the same in every arm; the
\* header ends there: what follows is ": <annotation>" or the first detail line.
Thm_C17 ==
    ComparisonFailed =>
        LET error == Drop(error_of(result), Len(location))
            header == <<"T", "e", "s", "t", " ", "f", "a", "i", "l", "e", "d", ":", " ">> \o Negated(call.macro, call.left.text, call.right.text)
        IN  /\ StartsWith(error, header)
            /\ StartsWith(Drop(error, Len(header)), IF call.args.present THEN <<":", " ">> ELSE <<"\n">>)

\* test_ge failed in its last arm: two variables and an annotation.
Wit_C17 ==
    /\ call.macro = "test_ge"
    /\ ~call.left.lit /\ ~call.right.lit /\ call.args.present
    /\ is_err(result)

\* The bracketed position of the call site, [file:line:column].
Position == <<"[", "s", "r", "c", "/", "m", "a", "i", "n", ".", "r", "s", ":", "5", ":", "1", "]">>

\* C18: with location capture the message of a failed comparison is the
\* bracketed position [file:line:column] immediately followed by "Test failed:",
\* with no separator between them; without it the message begins with
\* "Test failed:" and has no bracketed prefix.
Claim_C18 ==
    ComparisonFailed =>
        /\ line_info => StartsWith(error_of(result), Position \o <<"T", "e", "s", "t", " ", "f", "a", "i", "l", "e", "d", ":">>)
        /\ ~line_info =>
                /\ StartsWith(error_of(result), <<"T", "e", "s", "t", " ", "f", "a", "i", "l", "e", "d", ":">>)
                /\ error_of(result)[1] # "["

\* C18 as the code has it: with location capture the message begins with the
\* bracketed position [file:line:column], then a colon and a space, then
\* "Test failed: "; without it the message begins with "Test failed: " and
\* has no bracketed prefix.
Thm_C18 ==
    ComparisonFailed =>
        /\ line_info => StartsWith(error_of(result), Position \o <<":", " ", "T", "e", "s", "t", " ", "f", "a", "i", "l", "e", "d", ":", " ">>)
        /\ ~line_info =>
                /\ StartsWith(error_of(result), <<"T", "e", "s", "t", " ", "f", "a", "i", "l", "e", "d", ":", " ">>)
                /\ error_of(result)[1] # "["

\* test_eq failed in a build with location capture.
Wit_C18 ==
    /\ call.macro = "test_eq"
    /\ line_info
    /\ is_err(result)
    /\ StartsWith(error_of(result), Position)

\* The operand evaluations among the evaluations of an invocation, in order.
OperandEvaluations(evals) == SelectSeq(evals, LAMBDA e : e \in {"left", "right"})

Thm_C19 ==
    pc # "idle" =>
        /\ frame.params.first \in {Moved, [error |-> frame.input.first]}
        /\ frame.params.second \in {Moved, [error |-> frame.input.second]}
        /\ pc # "entry" /\ frame.first # frame.input.first => frame.params.first = Moved
        /\ pc # "entry" /\ frame.second # frame.input.second => frame.params.second = Moved
        /\ frame.ret # NoReturn => pc = "returned"

\* The second loop of two_tests_failed has edited its String, after the first
\* loop edited the other one.
Wit_C19 ==
    /\ pc = "loop_second"
    /\ frame.first # frame.input.first
    /\ frame.second # frame.input.second
    /\ frame.params.first = Moved /\ frame.params.second = Moved

\* C20: the merge constructors always complete: for every input message each
\* re-indentation loop of two_tests_failed and one_test_failed runs at most as
\* many iterations as the message has newlines, and the call returns its
\* TestFailure.
Thm_C20 ==
    /\ [](pc # "idle" =>
            /\ frame.iterations.first <= Newlines(frame.input.first)
            /\ frame.iterations.second <= Newlines(frame.input.second))
    /\ <>(pc = "returned" /\ frame.ret # NoReturn)

\* two_tests_failed returned after as many iterations of each loop as MaxLen allows.
Wit_C20 ==
    /\ pc = "returned"
    /\ frame.fn = "two_tests_failed"
    /\ frame.iterations.first = MaxLen
    /\ frame.iterations.second = MaxLen
    /\ frame.ret # NoReturn

----------------------------------------------------------------------------
----------------------------------------------------------------------------
----------------------------------------------------------------------------
\* C23: the two single-failure cases of test_and share one rendering: for every
\* failure x and annotation, test_and(Err(x), Ok) and test_and(Ok, Err(x)) give
\* the same message, character for character: the result does not tell which
\* side failed.
Thm_C23 ==
    ExactlyOneFailed =>
        /\ is_err(result)
        /\ is_err(test_and(call.right, call.left, call.args))
        /\ error_of(test_and(call.right, call.left, call.args)) = error_of(result)

\* test_and with an annotation failed on its right operand alone, a failure of
\* several lines.
Wit_C23 ==
    /\ ExactlyOneFailed
    /\ is_ok(call.left) /\ is_err(call.right)
    /\ call.args.present
    /\ Occurs(<<"\n">>, error_of(call.right))
    /\ is_err(result)

----------------------------------------------------------------------------
\* A loop of a merge constructor is about to evaluate its condition.
InLoop == pc \in {"loop_first", "loop_second"}

\* C24: the re-indentation loop never indexes out of bounds: at every iteration
\* start_of_search is at most the length of the String and on a character
\* boundary, so that the slice is valid, and the insertion index
\* start_of_search + position + 1 is at most the length of the String and on a
\* character boundary, also when the message ends with a newline, has
\* consecutive newlines or has characters of several bytes.
Thm_C24 ==
    InLoop =>
        /\ frame.start_of_search <= Len(searched)
        /\ is_char_boundary(searched, frame.start_of_search)
        /\ LET position == find(searched, frame.start_of_search)
           IN  position # -1 =>
                    /\ frame.start_of_search + position + 1 <= Len(searched)
                    /\ is_char_boundary(searched, frame.start_of_search + position + 1)

\* The loop is at a newline that ends the String, after a character of two
\* bytes and an earlier newline.
Wit_C24 ==
    /\ pc = "loop_first"
    /\ frame.input.first = <<"\n", "0xC3", "0xA9", "\n">>
    /\ frame.iterations.first = 1
    /\ frame.start_of_search + find(searched, frame.start_of_search) + 1 = Len(searched)

\* The offset of the k-th newline of s (k in 1..Newlines(s)).
NthNewline(s, k) ==
    (CHOOSE i \in 1..Len(s) :
        s[i] = "\n" /\ Cardinality({j \in 1..i : s[j] = "\n"}) = k) - 1

\* The message the loop at pc was given, and its iterations so far.
searched_input == IF pc = "loop_first" THEN frame.input.first ELSE frame.input.second

searched_iterations == IF pc = "loop_first" THEN frame.iterations.first ELSE frame.iterations.second

\* C25: in the re-indentation loop every newline of the original message is
\* found exactly once: after k iterations the search resumes strictly after the
\* k-th original newline (at the last of the spaces inserted behind it) and at
\* or before the next original one, which is the newline found next; when all
\* are handled none is found, and each loop ends after exactly as many
\* iterations as its input has newlines.
Thm_C25 ==
    /\ InLoop =>
        LET k == searched_iterations
            n == Newlines(searched_input)
            position == find(searched, frame.start_of_search)
        IN  /\ k <= n
            /\ k = 0 => frame.start_of_search = 0
            /\ k > 0 =>
                    /\ searched[NthNewline(searched_input, k) + 3 * (k - 1) + 1] = "\n"
                    /\ frame.start_of_search > NthNewline(searched_input, k) + 3 * (k - 1)
                    /\ frame.start_of_search = NthNewline(searched_input, k) + 3 * k
            /\ k < n =>
                    /\ frame.start_of_search <= NthNewline(searched_input, k + 1) + 3 * k
                    /\ position # -1
                    /\ frame.start_of_search + position = NthNewline(searched_input, k + 1) + 3 * k
            /\ k = n => position = -1
    /\ pc \in {"loop_second", "format", "returned"} =>
            frame.iterations.first = Newlines(frame.input.first)
    /\ pc \in {"format", "returned"} =>
            frame.iterations.second = Newlines(frame.input.second)

\* The loop has handled the first of two consecutive newlines and resumes one
\* byte before the second.
Wit_C25 ==
    /\ pc = "loop_second"
    /\ frame.input.second = <<"\n", "\n", "x">>
    /\ frame.iterations.second = 1
    /\ frame.start_of_search = 3
    /\ find(searched, frame.start_of_search) = 1

----------------------------------------------------------------------------
Combinators == {"test_and", "test_or"}

AnnotationEvaluations(evals) == Cardinality({i \in DOMAIN evals : evals[i] = "args"})

----------------------------------------------------------------------------
\* The offsets of the newlines of s after which the line begins with p.
LinesWith(s, p) ==
    {i \in 1..Len(s) : /\ s[i] = "\n"
                       /\ i + Len(p) <= Len(s)
                       /\ SubSeq(s, i + 1, i + Len(p)) = p}

\* C28: in a message built by two_tests_failed (the annotation has no newline),
\* exactly one line begins with "1: ", exactly one with "2: ", the first before
\* the second, and every other line after the header begins with three spaces,
\* whatever the two nested messages hold: the two nested failures are told
\* apart by the beginning of the lines.
Thm_C28 ==
    BothFailed /\ is_err(result) =>
        LET error == error_of(result)
            one == LinesWith(error, <<"1", ":", " ">>)
            two == LinesWith(error, <<"2", ":", " ">>)
        IN  /\ Cardinality(one) = 1
            /\ Cardinality(two) = 1
            /\ \A i \in one, j \in two : i < j
            /\ LinesWith(error, <<>>) = one \cup two \cup LinesWith(error, <<" ", " ", " ">>)
            /\ ~Occurs(<<"\n">>, SubSeq(error, 1, Len(<<"B", "o", "t", "h", " ", "t", "e", "s", "t", "s", " ", "f", "a", "i", "l", "e", "d", ":">>)))

\* A message of two failures, itself with lines "1: " and "2: " and with a
\* line of three spaces alone, was merged with another failure.
Wit_C28 ==
    /\ BothFailed
    /\ is_err(result)
    /\ tree.depth = 2
    /\ StartsWith(error_of(call.left), <<"B", "o", "t", "h", " ", "t", "e", "s", "t", "s", " ", "f", "a", "i", "l", "e", "d", ":">>)
    /\ Occurs(<<"\n", " ", " ", " ", "\n">>, error_of(call.left))
    /\ Cardinality(LinesWith(error_of(call.left), <<"1", ":", " ">>)) = 1
    /\ call.args.present

----------------------------------------------------------------------------
\* The operand shown when both operands are literals: the first arm that
\* matches decides.
ShownOfLiterals(c) ==
    IF c.macro \in {"test_any", "test_not_any"} THEN c.left
    ELSE IF c.args.present THEN c.right ELSE c.left

\* C29: the arms are selected first-match in declaration order, so that with
\* two literal operands exactly one detail line is rendered: test_eq, test_ne,
\* test_le and test_ge show the left operand without annotation and the right
\* one with an annotation; test_any and test_not_any show the left operand in
\* both forms.
Thm_C29 ==
    ComparisonFailed /\ call.left.lit /\ call.right.lit =>
        /\ error_of(result) =
                HeaderOf(call) \o AnnotationPart(call.args) \o DetailLine(ShownOfLiterals(call))
        /\ Newlines(error_of(result)) = 1

\* test_le with an annotation failed on two different literals: the line of
\* the right one is rendered, that of the left one is not.
Wit_C29 ==
    /\ call.macro = "test_le"
    /\ call.left.lit /\ call.right.lit
    /\ call.args.present
    /\ is_err(result)
    /\ DetailLine(call.left) # DetailLine(call.right)
    /\ Occurs(DetailLine(call.right), error_of(result))
    /\ ~Occurs(DetailLine(call.left), error_of(result))

====
